---- MODULE Spec2Model ----
(***************************************************************************)
(* Authentication token lifecycle of the fastapi-starter template.         *)
(*                                                                         *)
(* Two application variants ship the same JWTHandler:                      *)
(*   "api_app" : api_app/api/routers/v1/auth.py + api/core/dependencies.py *)
(*               and the use case api_app/modules/user/use_case.py         *)
(*   "apiapp"  : apiapp/modules/auth/{router,use_case}.py +                *)
(*               apiapp/api/core/security.py                               *)
(* Time is the clock reading in whole minutes; jose compares exp with the  *)
(* clock as integers (expired iff exp < now).  Optional values (Python     *)
(* None) are sets of at most one element; dictionaries are functions on    *)
(* strings; a raised exception is recorded by its class name.              *)
(*                                                                         *)
(* Spec      : the endpoints of a variant served one request at a time     *)
(* SpecCodec : the operations that take a bearer string, on their own      *)
(* SpecSteps : a refresh or login request followed statement by statement  *)
(* SpecReuse : a client that keeps the refresh token of a login and uses   *)
(*             it again while logins and password changes go on            *)
(* SpecConfig: JWTHandler built from the settings of a process start       *)
(* SpecHasher: the two password hashers applied to stored hash strings     *)
(* SpecRoles : UserUseCase.deactivate_user on accounts of every role       *)
(* SpecTasks : logins, password changes and registrations served           *)
(*             concurrently, interleaved at their awaits on the store      *)
(***************************************************************************)
EXTENDS Integers, Sequences, FiniteSets, TLC

VARIABLES app, now, ticks, users, resp, req, held, cfg, tasks

vars == <<app, now, ticks, users, resp, req, held, cfg, tasks>>

(***************************** bounds **************************************)
\* number of clock advances explored
MaxTicks == 2

\* number of requests followed step by step
MaxRequests == 2

\* number of times a client presents the refresh token it holds
MaxUses == 2

\* number of requests served at the same time
MaxTasks == 2

(************************* configuration ***********************************)
SECRET_KEY == "secret_key"
ACCESS_TOKEN_EXPIRE_MINUTES == 10
REFRESH_TOKEN_EXPIRE_MINUTES == 30 * 24 * 60
ALGORITHM == "HS256"

Apps == {"api_app", "apiapp"}

(************************* dictionaries ************************************)
\* dict.get(k): {} models None
Get(d, k) == IF k \in DOMAIN d THEN {d[k]} ELSE {}

\* dict.update(k=v) on a copy
Update(d, k, v) == (k :> v) @@ d

EmptyDict == <<>>

(************************* password hashing ********************************)
\* the digest werkzeug derives from salt and password, kept symbolic
HashInternal(salt, password) == <<"scrypt", salt, password>>

\* werkzeug.security.generate_password_hash: "method$salt$hash"
generate_password_hash(password, salt) ==
    [method |-> "scrypt", salt |-> salt, hash |-> HashInternal(salt, password)]

\* werkzeug.security.check_password_hash
check_password_hash(pwhash, password) ==
    HashInternal(pwhash.salt, password) = pwhash.hash

(************************* JWT codec (python-jose) *************************)
\* the MAC over header and payload, kept symbolic
Sign(alg, key, header, payload) ==
    IF alg = "none" THEN <<>> ELSE <<alg, key, header, payload>>

\* jose.jwt.encode(claims, key, algorithm)
jwt_encode(claims, key, algorithm) ==
    LET header == [alg |-> algorithm, typ |-> "JWT"]
    IN  [parts     |-> 3,
         header    |-> header,
         payload   |-> claims,
         signature |-> Sign(algorithm, key, header, claims)]

\* exception classes and their bases
Bases(cls) ==
    CASE cls = "ExpiredSignatureError" -> {"ExpiredSignatureError", "JWTError", "Exception"}
      [] cls = "JWTClaimsError"        -> {"JWTClaimsError", "JWTError", "Exception"}
      [] cls = "JWTError"              -> {"JWTError", "Exception"}
      [] cls = "HTTPException"         -> {"HTTPException", "Exception"}
      [] OTHER                         -> {cls, "Exception"}

IsInstance(cls, handler) == handler \in Bases(cls)

\* jose.jwt.decode with the expiry validation left out
jwt_decode_NoExpiry(token, key, algorithms, t) ==
    IF token.parts # 3
      THEN [raised |-> {"JWTError"}, claims |-> EmptyDict]
    ELSE IF token.header.alg \notin algorithms
      THEN [raised |-> {"JWTError"}, claims |-> EmptyDict]
    ELSE IF token.signature # Sign(token.header.alg, key, token.header, token.payload)
      THEN [raised |-> {"JWTError"}, claims |-> EmptyDict]
    ELSE [raised |-> {}, claims |-> token.payload]

\* jose.jwt.decode taking a token as expired from its exp on
jwt_decode_StrictExpiry(token, key, algorithms, t) ==
    IF token.parts # 3
      THEN [raised |-> {"JWTError"}, claims |-> EmptyDict]
    ELSE IF token.header.alg \notin algorithms
      THEN [raised |-> {"JWTError"}, claims |-> EmptyDict]
    ELSE IF token.signature # Sign(token.header.alg, key, token.header, token.payload)
      THEN [raised |-> {"JWTError"}, claims |-> EmptyDict]
    ELSE IF "exp" \in DOMAIN token.payload /\ token.payload.exp <= t
      THEN [raised |-> {"ExpiredSignatureError"}, claims |-> EmptyDict]
    ELSE [raised |-> {}, claims |-> token.payload]

\* jose.jwt.decode verifying with whatever algorithm the header names
jwt_decode_AnyAlgorithm(token, key, algorithms, t) ==
    IF token.parts # 3
      THEN [raised |-> {"JWTError"}, claims |-> EmptyDict]
    ELSE IF token.signature # Sign(token.header.alg, key, token.header, token.payload)
      THEN [raised |-> {"JWTError"}, claims |-> EmptyDict]
    ELSE IF "exp" \in DOMAIN token.payload /\ token.payload.exp < t
      THEN [raised |-> {"ExpiredSignatureError"}, claims |-> EmptyDict]
    ELSE [raised |-> {}, claims |-> token.payload]

\* jose.jwt.decode with the signature comparison left out
jwt_decode_NoSignature(token, key, algorithms, t) ==
    IF token.parts # 3
      THEN [raised |-> {"JWTError"}, claims |-> EmptyDict]
    ELSE IF token.header.alg \notin algorithms
      THEN [raised |-> {"JWTError"}, claims |-> EmptyDict]
    ELSE IF "exp" \in DOMAIN token.payload /\ token.payload.exp < t
      THEN [raised |-> {"ExpiredSignatureError"}, claims |-> EmptyDict]
    ELSE [raised |-> {}, claims |-> token.payload]

\* jose.jwt.decode(token, key, algorithms) evaluated at time t:
\* structure, algorithm allow-list, signature, then the registered claims
jwt_decode(token, key, algorithms, t) ==
    IF token.parts # 3
      THEN [raised |-> {"JWTError"}, claims |-> EmptyDict]
    ELSE IF token.header.alg \notin algorithms
      THEN [raised |-> {"JWTError"}, claims |-> EmptyDict]
    ELSE IF token.signature # Sign(token.header.alg, key, token.header, token.payload)
      THEN [raised |-> {"JWTError"}, claims |-> EmptyDict]
    ELSE IF "exp" \in DOMAIN token.payload /\ token.payload.exp < t
      THEN [raised |-> {"ExpiredSignatureError"}, claims |-> EmptyDict]
    ELSE [raised |-> {}, claims |-> token.payload]

(************************* HTTP outcomes ***********************************)
BearerHeader == [WWW_Authenticate |-> "Bearer"]

\* raise HTTPException(status_code, detail, headers)
HTTPException(status_code, detail, headers) ==
    [raised |-> {"HTTPException"}, status |-> status_code, detail |-> detail,
     headers |-> headers, body |-> EmptyDict]

\* a normal return
Ok(body) ==
    [raised |-> {}, status |-> 200, detail |-> <<>>, headers |-> EmptyDict,
     body |-> body]

\* any other exception: when nothing catches it the framework answers 500
Raise(cls, message) ==
    [raised |-> {cls}, status |-> 500, detail |-> message,
     headers |-> EmptyDict, body |-> EmptyDict]

\* str(HTTPException): "<status_code>: <detail>"
StrHTTPException(e) == <<ToString(e.status)>> \o e.detail

(************************* JWTHandler **************************************)
\* timedelta truthiness: None and timedelta(0) are both falsy
Truthy(expires_delta) == expires_delta # {} /\ expires_delta # {0}

\* JWTHandler.create_access_token(data, expires_delta) called at time t
create_access_token(data, expires_delta, t) ==
    LET expire == IF Truthy(expires_delta)
                    THEN t + (CHOOSE d \in expires_delta : TRUE)
                    ELSE t + ACCESS_TOKEN_EXPIRE_MINUTES
    IN  jwt_encode(Update(data, "exp", expire), SECRET_KEY, ALGORITHM)

\* JWTHandler.create_refresh_token(data, expires_delta) called at time t
create_refresh_token(data, expires_delta, t) ==
    LET expire == IF Truthy(expires_delta)
                    THEN t + (CHOOSE d \in expires_delta : TRUE)
                    ELSE t + REFRESH_TOKEN_EXPIRE_MINUTES
    IN  jwt_encode(Update(data, "exp", expire), SECRET_KEY, ALGORITHM)

\* the HTTPException decode_token raises inside its try block on a kind mismatch
TokenTypeIncorrect(expected, payload) ==
    HTTPException(401,
                  <<"Token type incorrect: expected", expected, "but got",
                    IF "token_type" \in DOMAIN payload THEN payload.token_type ELSE "None">>,
                  BearerHeader)

\* the except clauses of decode_token, tried in order
DecodeHandlers(cls, inner) ==
    IF IsInstance(cls, "ExpiredSignatureError")
      THEN HTTPException(400, <<"Token Expired">>, BearerHeader)
    ELSE IF IsInstance(cls, "JWTError")
      THEN HTTPException(401, <<"Token Invalid">>, BearerHeader)
    ELSE HTTPException(500, <<"Decode Error Token:">> \o StrHTTPException(inner), EmptyDict)

\* decode_token with the token_type comparison left out
decode_token_NoKindCheck(token, token_type, t) ==
    LET d == jwt_decode(token, SECRET_KEY, {ALGORITHM}, t)
    IN  IF d.raised # {}
          THEN DecodeHandlers(CHOOSE c \in d.raised : TRUE, Raise("JWTError", <<>>))
          ELSE Ok(d.claims)

\* JWTHandler.decode_token(token, token_type) called at time t
decode_token(token, token_type, t) ==
    LET d == jwt_decode(token, SECRET_KEY, {ALGORITHM}, t)
    IN  IF d.raised # {}
          THEN DecodeHandlers(CHOOSE c \in d.raised : TRUE, Raise("JWTError", <<>>))
        ELSE IF token_type # {} /\ token_type # {""}
                /\ Get(d.claims, "token_type") # token_type
          THEN DecodeHandlers("HTTPException",
                              TokenTypeIncorrect(CHOOSE k \in token_type : TRUE, d.claims))
        ELSE Ok(d.claims)

\* refresh_token minting with the refresh lifetime instead of the access one
JWTHandler_refresh_token_RefreshTTL(refresh_token_str, t) ==
    LET r == decode_token(refresh_token_str, {"refresh"}, t)
    IN  IF r.status # 200 THEN r
        ELSE IF Get(r.body, "sub") = {} \/ Get(r.body, "sub") = {""}
          THEN HTTPException(400, <<"No sub in Refresh Token">>, EmptyDict)
        ELSE Ok([token |-> create_access_token(
                              [sub |-> r.body.sub, token_type |-> "access"],
                              {REFRESH_TOKEN_EXPIRE_MINUTES}, t)])

\* refresh_token with the "if not user_id" check left out
JWTHandler_refresh_token_NoSubCheck(refresh_token_str, t) ==
    LET r == decode_token(refresh_token_str, {"refresh"}, t)
    IN  IF r.status # 200 THEN r
        ELSE Ok([token |-> create_access_token(
                              [sub |-> IF "sub" \in DOMAIN r.body THEN r.body.sub
                                                                  ELSE "None",
                               token_type |-> "access"],
                              {ACCESS_TOKEN_EXPIRE_MINUTES}, t)])

\* JWTHandler.refresh_token(refresh_token_str) called at time t
JWTHandler_refresh_token(refresh_token_str, t) ==
    LET r == decode_token(refresh_token_str, {"refresh"}, t)
    IN  IF r.status # 200 THEN r
        ELSE IF Get(r.body, "sub") = {} \/ Get(r.body, "sub") = {""}
          THEN HTTPException(400, <<"No sub in Refresh Token">>, EmptyDict)
        ELSE Ok([token |-> create_access_token(
                              [sub |-> r.body.sub, token_type |-> "access"],
                              {ACCESS_TOKEN_EXPIRE_MINUTES}, t)])

(************************* user store **************************************)
\* is_active stands for is_active (apiapp) and for status = "active" (api_app);
\* hashed_password stands for hashed_password (apiapp) and password (api_app)
InitUsers ==
    [id \in {"id1", "id2"} |->
        IF id = "id1"
          THEN [username |-> "alice", email |-> "alice@x",
                hashed_password |-> generate_password_hash("pw1", "s1"),
                is_active |-> TRUE, last_login_date |-> {}]
          ELSE [username |-> "bob", email |-> "bob@x",
                hashed_password |-> generate_password_hash("pw2", "s2"),
                is_active |-> FALSE, last_login_date |-> {}]]

\* Document.find_one(field == value): {} models None
find_one(us, field, value) ==
    LET hits == {id \in DOMAIN us : us[id][field] = value}
    IN  IF hits = {} THEN {} ELSE {CHOOSE id \in hits : TRUE}

\* apiapp BaseRepository.find_one(filters={"username": .., "is_active": True})
find_one_active(us, username) ==
    LET hits == {id \in DOMAIN us : us[id].username = username /\ us[id].is_active}
    IN  IF hits = {} THEN {} ELSE {CHOOSE id \in hits : TRUE}

\* Document.get(id): {} models None
get(us, id) == IF id \in DOMAIN us THEN {id} ELSE {}

\* BaseRepository.update(entity_id, update_data): loads a fresh copy of the
\* entity, sets the fields on that copy and saves it
update(us, entity_id, field, value) ==
    IF get(us, entity_id) = {} THEN us
    ELSE [us EXCEPT ![entity_id][field] = value]

(************************* response models *********************************)
TokenFields == {"access_token", "refresh_token", "token_type", "expires_in",
                "expires_at", "scope", "issued_at"}

GetAccessTokenResponseFields == {"access_token", "token_type"}

\* FastAPI validates a returned dict against the handler's return annotation
ResponseModel(fields, out) ==
    IF out.raised = {} /\ ~(fields \subseteq DOMAIN out.body)
      THEN Raise("ResponseValidationError", <<"Internal Server Error">>)
      ELSE out

\* schemas.Token(**kwargs): issued_at is a required datetime
Token(access_token, refresh_token, expires_in, expires_at, issued_at) ==
    IF issued_at = {}
      THEN Raise("pydantic.ValidationError", <<"Internal Server Error">>)
      ELSE Ok([access_token  |-> access_token,
               refresh_token |-> refresh_token,
               token_type    |-> "Bearer",
               scope         |-> "",
               expires_in    |-> expires_in,
               expires_at    |-> expires_at,
               issued_at     |-> CHOOSE d \in issued_at : TRUE])

IncorrectUsernameOrPassword(headers) ==
    HTTPException(401, <<"Incorrect username or password">>, headers)

\* what a handler did: its outcome and the store it leaves
Done(out, us) == [out |-> out, users |-> us]

(************************* api_app: api/routers/v1/auth.py *****************)
\* POST /auth/token
v1_login_for_access_token(form, us, t) ==
    LET user == find_one(us, "username", form.username)
    IN  IF user = {}
          THEN Done(IncorrectUsernameOrPassword(BearerHeader), us)
          ELSE LET id == CHOOSE u \in user : TRUE
                   access_token == create_access_token(
                                      [sub |-> id], {ACCESS_TOKEN_EXPIRE_MINUTES}, t)
               IN  Done(ResponseModel(TokenFields,
                                      Ok([access_token |-> access_token,
                                          token_type   |-> "bearer"])), us)

\* POST /auth/login
v1_authentication(form, us, t) ==
    LET by_name == find_one(us, "username", form.username)
        user    == IF by_name = {} THEN find_one(us, "email", form.username)
                                   ELSE by_name
    IN  IF user = {}
          THEN Done(IncorrectUsernameOrPassword(EmptyDict), us)
          ELSE LET id == CHOOSE u \in user : TRUE
               IN  IF ~check_password_hash(us[id].hashed_password, form.password)
                     THEN Done(IncorrectUsernameOrPassword(EmptyDict), us)
                     ELSE LET saved == [us EXCEPT ![id].last_login_date = {t}]
                              expires == {ACCESS_TOKEN_EXPIRE_MINUTES}
                          IN  Done(Token(create_access_token(
                                             [sub |-> id, token_type |-> "access"],
                                             expires, t),
                                         create_refresh_token(
                                             [sub |-> id, token_type |-> "refresh"],
                                             expires, t),
                                         ACCESS_TOKEN_EXPIRE_MINUTES * 60,
                                         t + ACCESS_TOKEN_EXPIRE_MINUTES,
                                         saved[id].last_login_date),
                                   saved)

\* GET /auth/refresh_token: HTTPException is re-raised, anything else becomes 500
v1_refresh_token(credentials, t) ==
    LET r == JWTHandler_refresh_token(credentials, t)
    IN  IF r.raised = {}
          THEN Ok([access_token |-> r.body.token, token_type |-> "bearer"])
        ELSE IF \E c \in r.raised : IsInstance(c, "HTTPException") THEN r
        ELSE HTTPException(500, <<"Exception in:">> \o r.detail, EmptyDict)

(************************* api_app: api/core/dependencies.py ***************)
CouldNotValidateCredentials ==
    HTTPException(401, <<"Could not validate credentials">>, BearerHeader)

\* get_current_user(token) called at time t
deps_get_current_user(token, us, t) ==
    LET d == jwt_decode(token, SECRET_KEY, {ALGORITHM}, t)
    IN  IF d.raised # {} THEN CouldNotValidateCredentials
        ELSE IF Get(d.claims, "sub") = {} THEN CouldNotValidateCredentials
        ELSE IF d.claims.sub = "" THEN Raise("InvalidId", <<"Internal Server Error">>)
        ELSE IF get(us, d.claims.sub) = {} THEN CouldNotValidateCredentials
        ELSE Ok([user |-> d.claims.sub])

(************************* api_app: modules/user/use_case.py ***************)
\* UserUseCase.authenticate_user(username, password): returns the user or None
UserUseCase_authenticate_user(form, us, t) ==
    LET user == find_one(us, "username", form.username)
    IN  IF user = {} THEN Done(Ok(EmptyDict), us)
        ELSE LET id == CHOOSE u \in user : TRUE
             IN  IF ~us[id].is_active
                   THEN Done(Raise("BusinessLogicError", <<"Account is deactivated">>), us)
                 ELSE IF ~check_password_hash(us[id].hashed_password, form.password)
                   THEN Done(Ok(EmptyDict), us)
                 ELSE Done(Ok([user |-> id]),
                           update(us, id, "last_login_date", {t}))

(************************* apiapp: modules/auth/use_case.py ****************)
\* AuthUseCase.login_for_access_token(form_data)
AuthUseCase_login_for_access_token(form, us, t) ==
    LET user == find_one_active(us, form.username)
    IN  IF user = {}
          THEN Done(IncorrectUsernameOrPassword(BearerHeader), us)
          ELSE LET id == CHOOSE u \in user : TRUE
                   access_token == create_access_token(
                                      [sub |-> id], {ACCESS_TOKEN_EXPIRE_MINUTES}, t)
               IN  Done(Ok([access_token |-> access_token, token_type |-> "bearer"]), us)

\* AuthUseCase.authentication(form_data): the last-login write goes to a fresh
\* copy of the entity, issued_at is read from the copy loaded before the write
AuthUseCase_authentication(form, us, t) ==
    LET user == find_one_active(us, form.username)
    IN  IF user = {}
          THEN Done(IncorrectUsernameOrPassword(EmptyDict), us)
          ELSE LET id == CHOOSE u \in user : TRUE
               IN  IF ~check_password_hash(us[id].hashed_password, form.password)
                     THEN Done(IncorrectUsernameOrPassword(EmptyDict), us)
                     ELSE LET saved == update(us, id, "last_login_date", {t})
                          IN  Done(Token(create_access_token(
                                             [sub |-> id, token_type |-> "access"],
                                             {ACCESS_TOKEN_EXPIRE_MINUTES}, t),
                                         create_refresh_token(
                                             [sub |-> id, token_type |-> "refresh"],
                                             {REFRESH_TOKEN_EXPIRE_MINUTES}, t),
                                         ACCESS_TOKEN_EXPIRE_MINUTES * 60,
                                         t + ACCESS_TOKEN_EXPIRE_MINUTES,
                                         us[id].last_login_date),
                                   saved)

\* the parameter list of "async def refresh_token(credentials)" in AuthUseCase
AuthUseCase_refresh_token_params == <<"credentials">>

\* calling a method on an instance: the instance takes the first parameter,
\* then every keyword must name a parameter that is still free
BoundCall(params, keywords) ==
    IF params = <<>> THEN {"TypeError"}
    ELSE IF \E k \in keywords : k = params[1] \/ k \notin {params[i] : i \in DOMAIN params}
      THEN {"TypeError"}
    ELSE {}

\* AuthUseCase.refresh_token as the router calls it:
\* use_case.refresh_token(credentials=credentials)
AuthUseCase_refresh_token(credentials, t) ==
    IF BoundCall(AuthUseCase_refresh_token_params, {"credentials"}) # {}
      THEN Raise("TypeError", <<"Internal Server Error">>)
      ELSE LET r == JWTHandler_refresh_token(credentials, t)
           IN  IF r.raised = {}
                 THEN Ok([access_token |-> r.body.token, token_type |-> "bearer"])
               ELSE IF \E c \in r.raised : IsInstance(c, "HTTPException") THEN r
               ELSE HTTPException(500, <<"Exception in:">> \o r.detail, EmptyDict)

(************************* apiapp: modules/auth/router.py ******************)
\* every route wraps its use-case call in
\* "except (BusinessLogicError, ValidationError)": those become 400
RouterGuard(out) ==
    IF out.raised \cap {"BusinessLogicError", "ValidationError"} # {}
      THEN HTTPException(400, out.detail, EmptyDict)
      ELSE out

(************************* apiapp: api/core/security.py ********************)
\* the module-level "repository = Depends(get_user_repository)" is a plain
\* Depends marker, never resolved to a UserRepository
RepositoryIsResolved == FALSE

\* get_current_user(token) called at time t
security_get_current_user(token, us, t) ==
    LET d == jwt_decode(token, SECRET_KEY, {ALGORITHM}, t)
    IN  IF d.raised # {}
          THEN HTTPException(403, <<"Could not validate credentials">>, EmptyDict)
        ELSE IF ~RepositoryIsResolved
          THEN Raise("AttributeError", <<"Internal Server Error">>)
        ELSE IF Get(d.claims, "sub") = {} \/ get(us, d.claims.sub) = {}
          THEN HTTPException(404, <<"User not found">>, EmptyDict)
        ELSE Ok([user |-> d.claims.sub])

(************************* password changes ********************************)
\* apiapp UserUseCase.update_password(user_id, new_password); salt is the
\* random salt generate_password_hash draws
UserUseCase_update_password(user_id, new_password, salt, us) ==
    IF get(us, user_id) = {}
      THEN Done(Ok([result |-> FALSE]), us)
      ELSE Done(Ok([result |-> TRUE]),
                [us EXCEPT ![user_id].hashed_password =
                               generate_password_hash(new_password, salt)])

\* api_app UserUseCase.change_password(user_id, old_password, new_password)
UserUseCase_change_password(user_id, old_password, new_password, salt, us) ==
    IF get(us, user_id) = {}
      THEN Done(Raise("BusinessLogicError", <<"User not found">>), us)
    ELSE IF ~check_password_hash(us[user_id].hashed_password, old_password)
      THEN Done(Raise("BusinessLogicError", <<"Invalid current password">>), us)
    ELSE IF Len(new_password) < 8
      THEN Done(Raise("BusinessLogicError",
                      <<"New password must be at least 8 characters">>), us)
    ELSE IF check_password_hash(us[user_id].hashed_password, new_password)
      THEN Done(Raise("BusinessLogicError",
                      <<"New password must be different from current password">>), us)
    ELSE Done(Ok([result |-> TRUE]),
              update(us, user_id, "hashed_password",
                     generate_password_hash(new_password, salt)))

(************************* requests ****************************************)
Usernames == {"alice", "bob", "ghost", "alice@x"}
Passwords == {"pw1", "pw2", "bad"}

Forms == [username : Usernames, password : Passwords]

TokenKinds == {"access", "refresh"}

\* payloads with every registered claim the handlers write
FullClaims(t) ==
    [sub : {"id1", "id2"}, token_type : TokenKinds,
     exp : {t - 1, t, t + ACCESS_TOKEN_EXPIRE_MINUTES}]

\* payloads as POST /token writes them: no token_type
UntypedClaims(t) ==
    [sub : {"id1", "id2"}, exp : {t - 1, t, t + ACCESS_TOKEN_EXPIRE_MINUTES}]

\* payloads lacking a claim, or naming nobody
OddClaims(t) ==
    { [sub |-> "id1", token_type |-> "refresh"],
      [sub |-> "id1", token_type |-> "access"],
      [sub |-> "", token_type |-> "refresh", exp |-> t + ACCESS_TOKEN_EXPIRE_MINUTES],
      [token_type |-> "refresh", exp |-> t + ACCESS_TOKEN_EXPIRE_MINUTES],
      [sub |-> "id9", token_type |-> "access", exp |-> t + ACCESS_TOKEN_EXPIRE_MINUTES] }

\* a bearer string that is not three dot-separated segments
Garbage ==
    [parts |-> 2, header |-> [alg |-> ALGORITHM, typ |-> "JWT"],
     payload |-> EmptyDict, signature |-> <<>>]

\* bearer strings a client can present at time t
PresentedTokens(t) ==
    {jwt_encode(c, SECRET_KEY, ALGORITHM) :
        c \in FullClaims(t) \cup UntypedClaims(t) \cup OddClaims(t)}
    \cup {jwt_encode([sub |-> "id1", token_type |-> k,
                      exp |-> t + ACCESS_TOKEN_EXPIRE_MINUTES], "other_key", ALGORITHM) :
            k \in TokenKinds}
    \cup {jwt_encode([sub |-> "id1", token_type |-> k,
                      exp |-> t + ACCESS_TOKEN_EXPIRE_MINUTES], SECRET_KEY, "none") :
            k \in TokenKinds}
    \cup {jwt_encode([sub |-> "id1", token_type |-> "access", exp |-> t - 1],
                      "other_key", ALGORITHM),
          jwt_encode([sub |-> "id1", token_type |-> "access",
                      exp |-> t + ACCESS_TOKEN_EXPIRE_MINUTES], SECRET_KEY, "HS384"),
          jwt_encode([sub |-> "id1", token_type |-> "access",
                      exp |-> t + ACCESS_TOKEN_EXPIRE_MINUTES], "other_key", "HS384")}
    \cup {Garbage}

NoForm == [username |-> "", password |-> ""]

NoToken ==
    [parts |-> 0, header |-> [alg |-> "", typ |-> ""],
     payload |-> EmptyDict, signature |-> <<>>]

\* the last request served and its outcome
Response(op, form, token, kind, out) ==
    [op |-> op, at |-> now, form |-> form, token |-> token, kind |-> kind,
     raised |-> out.raised, status |-> out.status, detail |-> out.detail,
     headers |-> out.headers, body |-> out.body]

\* a request followed through its handler: pc is the handler's position,
\* payload and user are the handler's locals, write is the last-login write
NoRequest ==
    [n |-> 0, op |-> "none", pc |-> "Idle", form |-> NoForm, token |-> NoToken,
     payload |-> {}, user |-> {}, write |-> "none", out |-> Ok(EmptyDict)]

(************************* configuration at startup ************************)
\* Settings(): a field set in the environment takes that value, any other
\* field its default; no field is validated beyond its type
Settings(env) ==
    [SECRET_KEY |-> IF "SECRET_KEY" \in DOMAIN env
                      THEN env.SECRET_KEY ELSE SECRET_KEY,
     ACCESS_TOKEN_EXPIRE_MINUTES |->
         IF "ACCESS_TOKEN_EXPIRE_MINUTES" \in DOMAIN env
           THEN env.ACCESS_TOKEN_EXPIRE_MINUTES ELSE ACCESS_TOKEN_EXPIRE_MINUTES,
     REFRESH_TOKEN_EXPIRE_MINUTES |->
         IF "REFRESH_TOKEN_EXPIRE_MINUTES" \in DOMAIN env
           THEN env.REFRESH_TOKEN_EXPIRE_MINUTES ELSE REFRESH_TOKEN_EXPIRE_MINUTES]

\* JWTHandler(secret_key, algorithm)
JWTHandler(secret_key, algorithm) ==
    [secret_key |-> secret_key, algorithm |-> algorithm]

\* importing the modules: settings = get_settings(), then
\* jwt_handler = JWTHandler(settings.SECRET_KEY, ALGORITHM)
Startup(env) ==
    [started |-> TRUE, env |-> env, settings |-> Settings(env),
     jwt_handler |-> JWTHandler(Settings(env).SECRET_KEY, ALGORITHM)]

\* before the modules are imported
NotStarted ==
    [started |-> FALSE, env |-> EmptyDict, settings |-> Settings(EmptyDict),
     jwt_handler |-> JWTHandler("", "")]

\* no coroutine is running
NoTasks == <<>>

\* the refresh token a client keeps from a login and how often it used it
NoHeld == [token |-> {}, uses |-> 0]

(************************* state machine ***********************************)
Init ==
    /\ app \in Apps
    /\ now = ACCESS_TOKEN_EXPIRE_MINUTES + 1
    /\ ticks = 0
    /\ users = InitUsers
    /\ resp = Response("none", NoForm, NoToken, {}, Ok(EmptyDict))
    /\ req = NoRequest
    /\ held = NoHeld
    /\ cfg = Startup(EmptyDict)
    /\ tasks = NoTasks

\* wall-clock time passes between requests
Tick ==
    /\ ticks < MaxTicks
    /\ \E d \in {1, ACCESS_TOKEN_EXPIRE_MINUTES} : now' = now + d
    /\ ticks' = ticks + 1
    /\ UNCHANGED <<app, users, resp, req, held, cfg, tasks>>

Serve(op, form, done) ==
    /\ resp' = Response(op, form, NoToken, {}, done.out)
    /\ users' = done.users
    /\ UNCHANGED <<app, now, ticks, req, held, cfg, tasks>>

ServeToken(op, token, kind, out) ==
    /\ resp' = Response(op, NoForm, token, kind, out)
    /\ UNCHANGED <<app, now, ticks, users, req, held, cfg, tasks>>

V1LoginForAccessToken ==
    /\ app = "api_app"
    /\ \E form \in Forms :
          Serve("login_for_access_token", form,
                v1_login_for_access_token(form, users, now))

V1Authentication ==
    /\ app = "api_app"
    /\ \E form \in Forms :
          Serve("authentication", form, v1_authentication(form, users, now))

V1RefreshToken ==
    /\ app = "api_app"
    /\ \E token \in PresentedTokens(now) :
          ServeToken("refresh_token", token, {}, v1_refresh_token(token, now))

DepsGetCurrentUser ==
    /\ app = "api_app"
    /\ \E token \in PresentedTokens(now) :
          ServeToken("get_current_user", token, {},
                     deps_get_current_user(token, users, now))

AuthenticateUser ==
    /\ app = "api_app"
    /\ \E form \in Forms :
          Serve("authenticate_user", form,
                UserUseCase_authenticate_user(form, users, now))

RouterLoginForAccessToken ==
    /\ app = "apiapp"
    /\ \E form \in Forms :
          LET done == AuthUseCase_login_for_access_token(form, users, now)
          IN  Serve("login_for_access_token", form,
                    [done EXCEPT !.out = ResponseModel(GetAccessTokenResponseFields,
                                                       RouterGuard(@))])

RouterAuthentication ==
    /\ app = "apiapp"
    /\ \E form \in Forms :
          LET done == AuthUseCase_authentication(form, users, now)
          IN  Serve("authentication", form,
                    [done EXCEPT !.out = ResponseModel(TokenFields, RouterGuard(@))])

RouterRefreshToken ==
    /\ app = "apiapp"
    /\ \E token \in PresentedTokens(now) :
          ServeToken("refresh_token", token, {},
                     ResponseModel(GetAccessTokenResponseFields,
                                   RouterGuard(AuthUseCase_refresh_token(token, now))))

SecurityGetCurrentUser ==
    /\ app = "apiapp"
    /\ \E token \in PresentedTokens(now) :
          ServeToken("get_current_user", token, {},
                     security_get_current_user(token, users, now))

\* JWTHandler.decode_token applied on its own
DecodeToken ==
    \E token \in PresentedTokens(now), kind \in {{}} \cup {{k} : k \in TokenKinds} :
        ServeToken("decode_token", token, kind, decode_token(token, kind, now))

\* JWTHandler.refresh_token applied on its own
JWTHandlerRefreshToken ==
    \E token \in PresentedTokens(now) :
        ServeToken("JWTHandler_refresh_token", token, {"refresh"},
                   JWTHandler_refresh_token(token, now))

Next ==
    \/ Tick
    \/ V1LoginForAccessToken
    \/ V1Authentication
    \/ V1RefreshToken
    \/ DepsGetCurrentUser
    \/ AuthenticateUser
    \/ RouterLoginForAccessToken
    \/ RouterAuthentication
    \/ RouterRefreshToken
    \/ SecurityGetCurrentUser
    \/ DecodeToken

Spec == Init /\ [][Next]_vars

(************************* the token handlers on their own *****************)
\* every operation that takes a bearer string, applied to every presented
\* token at every clock reading; none of them writes to the store
NextCodec ==
    \/ Tick
    \/ DecodeToken
    \/ JWTHandlerRefreshToken
    \/ V1RefreshToken
    \/ RouterRefreshToken
    \/ DepsGetCurrentUser
    \/ SecurityGetCurrentUser

SpecCodec == Init /\ [][NextCodec]_vars

(************************* a client reusing its refresh token **************)
NewPasswords == {"short", "newpassword"}

ReuseForms == [username : {"alice", "ghost"}, password : {"pw1", "bad", "newpassword"}]

\* POST /login of the variant; the client keeps the first refresh token it gets
ReuseLogin ==
    \E form \in ReuseForms :
        LET done == IF app = "api_app"
                      THEN v1_authentication(form, users, now)
                      ELSE [AuthUseCase_authentication(form, users, now)
                               EXCEPT !.out = ResponseModel(TokenFields, RouterGuard(@))]
        IN  /\ resp' = Response("authentication", form, NoToken, {}, done.out)
            /\ users' = done.users
            /\ held' = IF held.token = {} /\ done.out.raised = {}
                         THEN [token |-> {done.out.body.refresh_token}, uses |-> 0]
                         ELSE held
            /\ UNCHANGED <<app, now, ticks, req, cfg, tasks>>

\* a password change: change_password (api_app) or update_password (apiapp)
ReuseChangePassword ==
    \E id \in {"id1", "id9"}, old \in {"pw1", "bad"}, new \in NewPasswords :
        LET done == IF app = "api_app"
                      THEN UserUseCase_change_password(id, old, new, "s3", users)
                      ELSE UserUseCase_update_password(id, new, "s3", users)
        IN  /\ resp' = Response("change_password",
                                [username |-> id, password |-> new], NoToken, {}, done.out)
            /\ users' = done.users
            /\ UNCHANGED <<app, now, ticks, req, held, cfg, tasks>>

\* the client presents the refresh token it holds to JWTHandler.refresh_token
ReuseRefresh ==
    /\ held.token # {}
    /\ held.uses < MaxUses
    /\ LET token == CHOOSE k \in held.token : TRUE
       IN  resp' = Response("JWTHandler_refresh_token", NoForm, token, {"refresh"},
                            JWTHandler_refresh_token(token, now))
    /\ held' = [held EXCEPT !.uses = @ + 1]
    /\ UNCHANGED <<app, now, ticks, users, req, cfg, tasks>>

NextReuse ==
    \/ Tick
    \/ ReuseLogin
    \/ ReuseChangePassword
    \/ ReuseRefresh

SpecReuse == Init /\ [][NextReuse]_vars

(************************* JWTHandler on a loaded configuration ************)
\* JWTHandler.create_access_token(self, data, expires_delta) at time t, with
\* the module's settings object
JWTHandler_create_access_token(self, settings, data, expires_delta, t) ==
    LET expire == IF Truthy(expires_delta)
                    THEN t + (CHOOSE d \in expires_delta : TRUE)
                    ELSE t + settings.ACCESS_TOKEN_EXPIRE_MINUTES
    IN  jwt_encode(Update(data, "exp", expire), self.secret_key, self.algorithm)

\* JWTHandler.create_refresh_token(self, data, expires_delta) at time t
JWTHandler_create_refresh_token(self, settings, data, expires_delta, t) ==
    LET expire == IF Truthy(expires_delta)
                    THEN t + (CHOOSE d \in expires_delta : TRUE)
                    ELSE t + settings.REFRESH_TOKEN_EXPIRE_MINUTES
    IN  jwt_encode(Update(data, "exp", expire), self.secret_key, self.algorithm)

\* JWTHandler.decode_token(self, token, token_type) at time t
JWTHandler_decode_token(self, token, token_type, t) ==
    LET d == jwt_decode(token, self.secret_key, {self.algorithm}, t)
    IN  IF d.raised # {}
          THEN DecodeHandlers(CHOOSE c \in d.raised : TRUE, Raise("JWTError", <<>>))
        ELSE IF token_type # {} /\ token_type # {""}
                /\ Get(d.claims, "token_type") # token_type
          THEN DecodeHandlers("HTTPException",
                              TokenTypeIncorrect(CHOOSE k \in token_type : TRUE, d.claims))
        ELSE Ok(d.claims)

\* JWTHandler.refresh_token(self, refresh_token_str) at time t
JWTHandler_refresh_token_self(self, settings, refresh_token_str, t) ==
    LET r == JWTHandler_decode_token(self, refresh_token_str, {"refresh"}, t)
    IN  IF r.status # 200 THEN r
        ELSE IF Get(r.body, "sub") = {} \/ Get(r.body, "sub") = {""}
          THEN HTTPException(400, <<"No sub in Refresh Token">>, EmptyDict)
        ELSE Ok([token |-> JWTHandler_create_access_token(
                              self, settings,
                              [sub |-> r.body.sub, token_type |-> "access"],
                              {settings.ACCESS_TOKEN_EXPIRE_MINUTES}, t)])

\* what the process environment can hold for the three auth settings
Environments ==
    {s @@ a @@ r :
        s \in {EmptyDict} \cup {[SECRET_KEY |-> k] : k \in {"", "k1"}},
        a \in {EmptyDict} \cup {[ACCESS_TOKEN_EXPIRE_MINUTES |-> m] : m \in {-1, 0}},
        r \in {EmptyDict} \cup {[REFRESH_TOKEN_EXPIRE_MINUTES |-> m] : m \in {0}}}

\* the expires_delta arguments: absent, zero, a minute, and the two
\* timedelta(minutes=settings...) values the handlers pass
Deltas(settings) ==
    {{}, {0}, {1}, {settings.ACCESS_TOKEN_EXPIRE_MINUTES},
     {settings.REFRESH_TOKEN_EXPIRE_MINUTES}}

\* bearer strings presented to a handler built on any configuration
ConfigTokens(self, t) ==
    {jwt_encode([sub |-> "id1", token_type |-> k, exp |-> e], key, ALGORITHM) :
        k \in TokenKinds, e \in {t - 1, t + 1},
        key \in {self.secret_key, "other_key"}}
    \cup {Garbage}

InitConfig ==
    /\ app \in Apps
    /\ now = ACCESS_TOKEN_EXPIRE_MINUTES + 1
    /\ ticks = 0
    /\ users = InitUsers
    /\ resp = Response("none", NoForm, NoToken, {}, Ok(EmptyDict))
    /\ req = NoRequest
    /\ held = NoHeld
    /\ cfg = NotStarted
    /\ tasks = NoTasks

\* the process starts: Settings() and JWTHandler(...) are built once
ConfigStartup ==
    /\ ~cfg.started
    /\ \E env \in Environments : cfg' = Startup(env)
    /\ UNCHANGED <<app, now, ticks, users, resp, req, held, tasks>>

ConfigServe(op, token, kind, out) ==
    /\ cfg.started
    /\ resp' = Response(op, NoForm, token, kind, out)
    /\ UNCHANGED <<app, now, ticks, users, req, held, cfg, tasks>>

ConfigCreateAccessToken ==
    \E k \in TokenKinds, delta \in Deltas(cfg.settings) :
        LET token == JWTHandler_create_access_token(
                        cfg.jwt_handler, cfg.settings,
                        [sub |-> "id1", token_type |-> k], delta, now)
        IN  ConfigServe("create_access_token", token, {k}, Ok([token |-> token]))

ConfigCreateRefreshToken ==
    \E k \in TokenKinds, delta \in Deltas(cfg.settings) :
        LET token == JWTHandler_create_refresh_token(
                        cfg.jwt_handler, cfg.settings,
                        [sub |-> "id1", token_type |-> k], delta, now)
        IN  ConfigServe("create_refresh_token", token, {k}, Ok([token |-> token]))

ConfigDecodeToken ==
    \E token \in ConfigTokens(cfg.jwt_handler, now),
       kind \in {{}} \cup {{k} : k \in TokenKinds} :
        ConfigServe("decode_token", token, kind,
                    JWTHandler_decode_token(cfg.jwt_handler, token, kind, now))

\* a refresh_token that notes the use of the token in the user's record
ConfigRefreshToken_Recording ==
    /\ cfg.started
    /\ \E token \in ConfigTokens(cfg.jwt_handler, now) :
          /\ resp' = Response("refresh_token", NoForm, token, {"refresh"},
                              JWTHandler_refresh_token_self(
                                  cfg.jwt_handler, cfg.settings, token, now))
          /\ users' = update(users, "id1", "last_login_date", {now})
    /\ UNCHANGED <<app, now, ticks, req, held, cfg, tasks>>

ConfigRefreshToken ==
    \E token \in ConfigTokens(cfg.jwt_handler, now) :
        ConfigServe("refresh_token", token, {"refresh"},
                    JWTHandler_refresh_token_self(
                        cfg.jwt_handler, cfg.settings, token, now))

NextConfig ==
    \/ Tick
    \/ ConfigStartup
    \/ ConfigCreateAccessToken
    \/ ConfigCreateRefreshToken
    \/ ConfigDecodeToken
    \/ ConfigRefreshToken

SpecConfig == InitConfig /\ [][NextConfig]_vars


(************************* password hashers on stored strings **************)
\* A stored hash string is kept as the sequence of its "$"-separated pieces.
\* A plaintext is [head, tail]: head is its first 72 bytes, tail what follows.
\* "L" is a head of exactly 72 bytes, "pw1" a shorter one
Plaintexts ==
    [head : {"pw1"}, tail : {""}] \cup [head : {"L"}, tail : {"", "x", "y"}]

HashMethods == {"scrypt", "pbkdf2"}

\* a function's return value or the exception it raised
Returns(value) == [raised |-> {}, value |-> value]
Throws(cls) == [raised |-> {cls}, value |-> <<>>]

\* werkzeug.security._hash_internal(method, salt, password)
hash_internal(method, salt, password) ==
    IF method \in HashMethods
      THEN Returns(<<method, salt, password>>)
      ELSE Throws("ValueError")

\* werkzeug.security.check_password_hash: pwhash.split("$", 2) failing with
\* ValueError gives False; _hash_internal's ValueError is not caught
werkzeug_check_password_hash(pwhash, password) ==
    IF Len(pwhash) < 3 THEN Returns(FALSE)
    ELSE LET h == hash_internal(pwhash[1], pwhash[2], password)
         IN  IF h.raised # {} THEN h
             ELSE Returns(<<h.value>> = SubSeq(pwhash, 3, Len(pwhash)))

\* User.set_password: generate_password_hash gives "method$salt$hash"
User_set_password(password, salt) ==
    Returns(<<"scrypt", salt, hash_internal("scrypt", salt, password).value>>)

\* User.verify_password

User_verify_password(hashed_password, password) ==
    werkzeug_check_password_hash(hashed_password, password)

\* bcrypt reads "$2b$<cost>$<22 characters of salt>..." from its salt argument
BcryptSaltOf(salt) ==
    IF /\ Len(salt) = 4
       /\ salt[1] = ""
       /\ salt[2] \in {"2a", "2b", "2y"}
       /\ salt[3] = "14"
       /\ salt[4].salt # ""
      THEN {salt[4].salt}
      ELSE {}

\* bcrypt.hashpw(password, salt)
bcrypt_hashpw(password, salt, release) ==
    IF BcryptSaltOf(salt) = {} THEN Throws("ValueError")
    ELSE IF password.tail # "" /\ release = "rejects" THEN Throws("ValueError")
    ELSE LET s == CHOOSE x \in BcryptSaltOf(salt) : TRUE
         IN  Returns(<<"", "2b", "14",
                       [salt |-> s, digest |-> <<"bcrypt", s, password.head>>]>>)

\* bcrypt.checkpw(password, hashed_password)
bcrypt_checkpw(password, hashed_password, release) ==
    LET ret == bcrypt_hashpw(password, hashed_password, release)
    IN  IF ret.raised # {} THEN ret ELSE Returns(ret.value = hashed_password)

\* security.get_password_hash: bcrypt.gensalt(14) gives "$2b$14$<salt>"
get_password_hash(password, salt, release) ==
    bcrypt_hashpw(password, <<"", "2b", "14", [salt |-> salt, digest |-> <<>>]>>,
                  release)

\* security.verify_password

verify_password(plain_password, hashed_password, release) ==
    bcrypt_checkpw(plain_password, hashed_password, release)

\* stored strings no hasher produced: the empty string, hashes cut short, text
BrokenHashes ==
    { <<"">>,
      <<"plain">>,
      <<"scrypt", "s1">>,
      <<"scrypt", "s1", "cut">>,
      <<"", "2b">>,
      <<"", "2b", "14", [salt |-> "", digest |-> <<>>]>>,
      <<"", "2b", "14", [salt |-> "s1", digest |-> "cut"]>> }

\* AuthUseCase.authentication(form_data) on a store of hash strings
AuthUseCase_authentication_stored(form, us, t) ==
    LET user == find_one_active(us, form.username)
    IN  IF user = {}
          THEN Done(IncorrectUsernameOrPassword(EmptyDict), us)
          ELSE LET id == CHOOSE u \in user : TRUE
                   v == User_verify_password(us[id].hashed_password, form.password)
               IN  IF v.raised # {}
                     THEN Done(Raise(CHOOSE c \in v.raised : TRUE,
                                     <<"Internal Server Error">>), us)
                   ELSE IF ~v.value
                     THEN Done(IncorrectUsernameOrPassword(EmptyDict), us)
                     ELSE LET saved == update(us, id, "last_login_date", {t})
                          IN  Done(Token(create_access_token(
                                             [sub |-> id, token_type |-> "access"],
                                             {ACCESS_TOKEN_EXPIRE_MINUTES}, t),
                                         create_refresh_token(
                                             [sub |-> id, token_type |-> "refresh"],
                                             {REFRESH_TOKEN_EXPIRE_MINUTES}, t),
                                         ACCESS_TOKEN_EXPIRE_MINUTES * 60,
                                         t + ACCESS_TOKEN_EXPIRE_MINUTES,
                                         us[id].last_login_date),
                                   saved)

InitHasher ==
    /\ app = "apiapp"
    /\ now = ACCESS_TOKEN_EXPIRE_MINUTES + 1
    /\ ticks = 0
    /\ \E h \in BrokenHashes :
          users = [InitUsers EXCEPT !["id1"].hashed_password = h]
    /\ resp = Response("none", NoForm, NoToken, {}, Ok(EmptyDict))
    /\ req = NoRequest
    \* what is known of alice's stored hash: the plaintext it was made from,
    \* the hasher that made it, and the bcrypt release installed (before 5.0
    \* bcrypt hashes the first 72 bytes of a longer password, from 5.0 on it
    \* raises ValueError)
    /\ \E release \in {"truncates", "rejects"} :
          held = [of |-> {}, by |-> "none", bcrypt |-> release]
    /\ cfg = Startup(EmptyDict)
    /\ tasks = NoTasks

\* a hasher call: op, the plaintext given, what it returned or raised
HasherCall(op, password, r) ==
    Response(op, [username |-> "alice", password |-> password], NoToken, {},
             IF r.raised = {} THEN Ok([value |-> r.value])
                              ELSE Raise(CHOOSE c \in r.raised : TRUE, <<>>))

\* a new hash made by one of the hashers is stored for alice
HasherStore(op, by, password, r) ==
    /\ resp' = HasherCall(op, password, r)
    /\ IF r.raised = {}
         THEN /\ users' = [users EXCEPT !["id1"].hashed_password = r.value]
              /\ held' = [held EXCEPT !.of = {password}, !.by = by]
         ELSE UNCHANGED <<users, held>>
    /\ UNCHANGED <<app, now, ticks, req, cfg, tasks>>

HasherGetPasswordHash ==
    \E password \in Plaintexts, salt \in {"s1", "s2"} :
        HasherStore("get_password_hash", "bcrypt", password,
                    get_password_hash(password, salt, held.bcrypt))

HasherSetPassword ==
    \E password \in Plaintexts, salt \in {"s1", "s2"} :
        HasherStore("set_password", "werkzeug", password,
                    User_set_password(password, salt))

HasherVerifyPassword ==
    /\ \E password \in Plaintexts :
          resp' = HasherCall("verify_password", password,
                             verify_password(password, users["id1"].hashed_password,
                                             held.bcrypt))
    /\ UNCHANGED <<app, now, ticks, users, req, held, cfg, tasks>>

HasherUserVerifyPassword ==
    /\ \E password \in Plaintexts :
          resp' = HasherCall("User_verify_password", password,
                             User_verify_password(users["id1"].hashed_password,
                                                  password))
    /\ UNCHANGED <<app, now, ticks, users, req, held, cfg, tasks>>

HasherAuthentication ==
    \E password \in Plaintexts :
        LET form == [username |-> "alice", password |-> password]
            done == AuthUseCase_authentication_stored(form, users, now)
        IN  Serve("authentication", form,
                  [done EXCEPT !.out = ResponseModel(TokenFields, RouterGuard(@))])

NextHasher ==
    \/ HasherGetPasswordHash
    \/ HasherSetPassword
    \/ HasherVerifyPassword
    \/ HasherUserVerifyPassword
    \/ HasherAuthentication

SpecHasher == InitHasher /\ [][NextHasher]_vars


(************************* api_app: UserUseCase.deactivate_user ************)
\* The User document of api_app declares its fields in modules/user/model.py;
\* what deactivate_user relies on is left open here: whether role is kept as
\* the plain string or as a UserRole member, and whether the document has the
\* fields deactivated_by and deactivated_at (setattr of an undeclared field
\* raises ValueError).
RoleTypes == {"str", "UserRole"}

StoredRole(role_type, name) == [type |-> role_type, value |-> name]

\* role == "name" / role in [names]: a UserRole member equals no string
RoleIn(role, names) == role.type = "str" /\ role.value \in names

Accounts ==
    [id1 |-> "super_admin", id2 |-> "admin", id3 |-> "admin", id4 |-> "user"]

\* UserRole has members for "user", "admin" and "moderator" only
RoleUsers(role_type) ==
    LET ids == {id \in DOMAIN Accounts :
                   role_type = "str" \/ Accounts[id] \in {"user", "admin", "moderator"}}
    IN  [id \in ids |->
            [username |-> id, role |-> StoredRole(role_type, Accounts[id]),
             is_active |-> TRUE, deactivated_by |-> {}, deactivated_at |-> {},
             updated_at |-> {}]]

\* BaseRepository.find_by_id(entity_id): {} models None
find_by_id(us, entity_id) == IF entity_id \in DOMAIN us THEN {entity_id} ELSE {}

\* BaseRepository.update(entity_id, update_data) with the deactivation fields
BaseRepository_update_deactivation(us, entity_id, admin_user_id, t, declared) ==
    IF find_by_id(us, entity_id) = {} THEN Done(Ok(EmptyDict), us)
    ELSE IF ~declared THEN Done(Raise("ValueError", <<"Internal Server Error">>), us)
    ELSE Done(Ok([user |-> entity_id]),
              [us EXCEPT ![entity_id].is_active = FALSE,
                         ![entity_id].deactivated_by = {admin_user_id},
                         ![entity_id].deactivated_at = {t},
                         ![entity_id].updated_at = {t}])

\* UserUseCase.deactivate_user(user_id, admin_user_id)
UserUseCase_deactivate_user_NoSelfCheck(user_id, admin_user_id, us, t, declared) ==
    LET admin == find_by_id(us, admin_user_id)
        user  == find_by_id(us, user_id)
    IN  IF admin = {} \/ ~RoleIn(us[admin_user_id].role, {"admin", "super_admin"})
          THEN Done(Raise("BusinessLogicError",
                          <<"Only admins can deactivate users">>), us)
        ELSE IF user = {}
          THEN Done(Raise("BusinessLogicError", <<"User not found">>), us)
        ELSE IF RoleIn(us[user_id].role, {"super_admin"})
          THEN Done(Raise("BusinessLogicError",
                          <<"Cannot deactivate super admin">>), us)
        ELSE BaseRepository_update_deactivation(us, user_id, admin_user_id, t, declared)

UserUseCase_deactivate_user(user_id, admin_user_id, us, t, declared) ==
    LET admin == find_by_id(us, admin_user_id)
        user  == find_by_id(us, user_id)
    IN  IF admin = {} \/ ~RoleIn(us[admin_user_id].role, {"admin", "super_admin"})
          THEN Done(Raise("BusinessLogicError",
                          <<"Only admins can deactivate users">>), us)
        ELSE IF user = {}
          THEN Done(Raise("BusinessLogicError", <<"User not found">>), us)
        ELSE IF RoleIn(us[user_id].role, {"super_admin"})
          THEN Done(Raise("BusinessLogicError",
                          <<"Cannot deactivate super admin">>), us)
        ELSE IF user_id = admin_user_id
          THEN Done(Raise("BusinessLogicError",
                          <<"Cannot deactivate yourself">>), us)
        ELSE BaseRepository_update_deactivation(us, user_id, admin_user_id, t, declared)

InitRoles ==
    /\ app = "api_app"
    /\ now = ACCESS_TOKEN_EXPIRE_MINUTES + 1
    /\ ticks = 0
    /\ \E role_type \in RoleTypes, declared \in BOOLEAN :
          /\ users = RoleUsers(role_type)
          /\ held = [role_type |-> role_type, declared |-> declared]
    /\ resp = Response("none", NoForm, NoToken, {}, Ok(EmptyDict))
    /\ req = NoRequest
    /\ cfg = Startup(EmptyDict)
    /\ tasks = NoTasks

DeactivateUser ==
    \E user_id, admin_user_id \in DOMAIN Accounts \cup {"id9"} :
        Serve("deactivate_user",
              [user_id |-> user_id, admin_user_id |-> admin_user_id],
              UserUseCase_deactivate_user(user_id, admin_user_id, users, now,
                                          held.declared))

NextRoles ==
    \/ Tick
    \/ DeactivateUser

SpecRoles == InitRoles /\ [][NextRoles]_vars


(************************* requests served concurrently ********************)
\* Each request runs as its own coroutine; coroutines interleave at their
\* awaits on the store.  A task keeps the handler's locals: user is the
\* document the handler loaded, fresh the copy BaseRepository.update loaded.
\* Document.save() writes every field of the document it is called on.
TaskIds == 1 .. MaxTasks

TaskForm(username, password, new_password, user_id) ==
    [username |-> username, password |-> password,
     new_password |-> new_password, user_id |-> user_id]

IdleTask ==
    [op |-> "none", pc |-> "Idle", form |-> TaskForm("", "", "", ""),
     user |-> {}, fresh |-> {}, at |-> 0, out |-> Ok(EmptyDict)]

\* the stored documents with the timestamp BaseRepository.update maintains
TaskUsers ==
    [id \in DOMAIN InitUsers |->
        [username        |-> InitUsers[id].username,
         email           |-> InitUsers[id].email,
         hashed_password |-> InitUsers[id].hashed_password,
         is_active       |-> InitUsers[id].is_active,
         last_login_date |-> InitUsers[id].last_login_date,
         updated_at      |-> {}]]

\* a loaded document: its id and the field values read
Loaded(us, id) == {[id |-> id, doc |-> us[id]]}

\* the ObjectId a new document gets is made by the client and is unique
NewId(i) == IF i = 1 THEN "id3" ELSE IF i = 2 THEN "id4" ELSE "id5"

\* str.lower().strip() on the usernames registered here
lower_strip(username) == IF username = "Carol" THEN "carol" ELSE username

RegisterOps == {"register_user", "repository_register_user", "create"}

\* the operations each variant offers
TaskOps(variant) ==
    IF variant = "api_app"
      THEN {"authentication", "change_password", "register_user",
            "repository_register_user"}
      ELSE {"authentication", "update_password", "create"}

\* the requests made of an operation
TaskForms(op) ==
    IF op = "authentication"
      THEN {TaskForm("alice", pw, "", "") : pw \in {"pw1", "bad"}}
    ELSE IF op \in RegisterOps
      THEN {TaskForm(u, "password1", "", "") : u \in {"carol", "Carol", "alice"}}
    ELSE {TaskForm("", "pw1", "newpassword", "id1")}

InitTasks ==
    /\ app \in Apps
    /\ now = ACCESS_TOKEN_EXPIRE_MINUTES + 1
    /\ ticks = 0
    /\ users = TaskUsers
    /\ resp = Response("none", NoForm, NoToken, {}, Ok(EmptyDict))
    /\ req = NoRequest
    \* apiapp declares username as Indexed(unique=True); api_app's document
    \* is open on that point
    /\ \E unique \in BOOLEAN :
          /\ app = "apiapp" => unique
          /\ held = [unique_index |-> unique]
    /\ cfg = Startup(EmptyDict)
    /\ tasks = [i \in TaskIds |-> IdleTask]

TaskMove(i, task, us) ==
    /\ tasks' = [tasks EXCEPT ![i] = task]
    /\ users' = us
    /\ UNCHANGED <<app, now, ticks, resp, req, held, cfg>>

TaskEnd(task, out) == [task EXCEPT !.pc = "Done", !.out = out, !.at = now]

\* a request arrives and its coroutine is created
TaskBegin(i) ==
    /\ tasks[i].pc = "Idle"
    /\ \E op \in TaskOps(app) : \E form \in TaskForms(op) :
          TaskMove(i, [IdleTask EXCEPT !.op = op, !.pc = "Start", !.form = form],
                   users)

\* login: "user = await find_one(...)" of either variant
TaskLoginFind(i) ==
    LET task == tasks[i]
        by_name == find_one(users, "username", task.form.username)
        user == IF app = "apiapp" THEN find_one_active(users, task.form.username)
                ELSE IF by_name = {} THEN find_one(users, "email", task.form.username)
                ELSE by_name
    IN  /\ task.op = "authentication" /\ task.pc = "Start"
        /\ IF user = {}
             THEN TaskMove(i, TaskEnd(task, IncorrectUsernameOrPassword(EmptyDict)),
                           users)
             ELSE TaskMove(i, [task EXCEPT !.pc = "Found",
                                           !.user = Loaded(users, CHOOSE u \in user : TRUE)],
                           users)

\* the token pair a login returns; api_app gives both tokens the access TTL
TaskToken(id, refresh_minutes, issued_at) ==
    Token(create_access_token([sub |-> id, token_type |-> "access"],
                              {ACCESS_TOKEN_EXPIRE_MINUTES}, now),
          create_refresh_token([sub |-> id, token_type |-> "refresh"],
                               {refresh_minutes}, now),
          ACCESS_TOKEN_EXPIRE_MINUTES * 60,
          now + ACCESS_TOKEN_EXPIRE_MINUTES,
          issued_at)

\* api_app login from the password check to the response:
\* "user.last_login_date = now; await user.save()" on the document loaded
TaskLoginSave(i) ==
    LET task == tasks[i]
        user == CHOOSE u \in task.user : TRUE
        doc  == [user.doc EXCEPT !.last_login_date = {now}]
    IN  /\ app = "api_app" /\ task.op = "authentication" /\ task.pc = "Found"
        /\ IF ~check_password_hash(user.doc.hashed_password, task.form.password)
             THEN TaskMove(i, TaskEnd(task, IncorrectUsernameOrPassword(EmptyDict)),
                           users)
             ELSE TaskMove(i, TaskEnd(task, TaskToken(user.id, ACCESS_TOKEN_EXPIRE_MINUTES,
                                                      doc.last_login_date)),
                           [users EXCEPT ![user.id] = doc])

\* apiapp login from the password check to "entity = await find_by_id(...)"
\* inside BaseRepository.update
TaskLoginReload(i) ==
    LET task == tasks[i]
        user == CHOOSE u \in task.user : TRUE
    IN  /\ app = "apiapp" /\ task.op = "authentication" /\ task.pc = "Found"
        /\ IF ~check_password_hash(user.doc.hashed_password, task.form.password)
             THEN TaskMove(i, TaskEnd(task, IncorrectUsernameOrPassword(EmptyDict)),
                           users)
             ELSE TaskMove(i, [task EXCEPT !.pc = "Reloaded",
                                           !.fresh = Loaded(users, user.id)],
                           users)

\* apiapp login: "await entity.save()" on the reloaded copy, then the
\* response with issued_at taken from the copy loaded first
TaskLoginWrite(i) ==
    LET task == tasks[i]
        user == CHOOSE u \in task.user : TRUE
        fresh == CHOOSE u \in task.fresh : TRUE
        doc == [fresh.doc EXCEPT !.last_login_date = {now}, !.updated_at = {now}]
        out == ResponseModel(TokenFields,
                   RouterGuard(TaskToken(user.id, REFRESH_TOKEN_EXPIRE_MINUTES,
                                         user.doc.last_login_date)))
    IN  /\ app = "apiapp" /\ task.op = "authentication" /\ task.pc = "Reloaded"
        /\ TaskMove(i, TaskEnd(task, out), [users EXCEPT ![fresh.id] = doc])

\* password change: the first load and the checks made on it
TaskChangeFind(i) ==
    LET task == tasks[i]
        id == task.form.user_id
        found == [task EXCEPT !.pc = "Found", !.user = Loaded(users, id)]
    IN  /\ task.op \in {"change_password", "update_password"} /\ task.pc = "Start"
        /\ IF task.op = "update_password"
             THEN IF get(users, id) = {}
                    THEN TaskMove(i, TaskEnd(task, Ok([result |-> FALSE])), users)
                    ELSE TaskMove(i, found, users)
             ELSE LET done == UserUseCase_change_password(
                                  id, task.form.password, task.form.new_password,
                                  "s3", users)
                  IN  IF done.out.raised # {}
                        THEN TaskMove(i, TaskEnd(task, done.out), users)
                        ELSE TaskMove(i, found, users)

\* api_app change_password: "entity = await find_by_id(...)" inside
\* BaseRepository.update
TaskChangeReload(i) ==
    LET task == tasks[i]
        id == task.form.user_id
    IN  /\ task.op = "change_password" /\ task.pc = "Found"
        /\ IF get(users, id) = {}
             THEN TaskMove(i, TaskEnd(task, Ok([result |-> TRUE])), users)
             ELSE TaskMove(i, [task EXCEPT !.pc = "Reloaded",
                                           !.fresh = Loaded(users, id)], users)

\* password change: "await save()" of the document the new hash was set on
TaskChangeWrite(i) ==
    LET task == tasks[i]
        held_doc == IF task.op = "update_password" THEN task.user ELSE task.fresh
        user == CHOOSE u \in held_doc : TRUE
        doc == [user.doc EXCEPT
                   !.hashed_password =
                       generate_password_hash(task.form.new_password, "s3"),
                   !.updated_at = {now}]
    IN  /\ \/ task.op = "update_password" /\ task.pc = "Found"
           \/ task.op = "change_password" /\ task.pc = "Reloaded"
        /\ TaskMove(i, TaskEnd(task, Ok([result |-> TRUE])),
                    [users EXCEPT ![user.id] = doc])

\* the username a registration looks up and the one the new document
\* stores: apiapp normalises it in both places
Stored(op, username) == IF op = "create" THEN lower_strip(username) ELSE username

AlreadyExists(op) ==
    IF op = "repository_register_user"
      THEN Raise("ValueError", <<"Username already exists">>)
    ELSE Raise("DuplicatedError", <<"Username already exists">>)

\* registration: the uniqueness check
TaskRegisterCheck(i) ==
    LET task == tasks[i]
        existing == find_one(users, "username", Stored(task.op, task.form.username))
    IN  /\ task.op \in RegisterOps /\ task.pc = "Start"
        /\ IF existing # {}
             THEN TaskMove(i, TaskEnd(task, AlreadyExists(task.op)), users)
             ELSE TaskMove(i, [task EXCEPT !.pc = "Checked"], users)

\* what the insert's failure on the unique index becomes
InsertRefused(op) ==
    IF op = "register_user"
      THEN Raise("ValidationError", <<"Registration failed">>)
      ELSE Raise("DuplicateKeyError", <<"Internal Server Error">>)

\* registration: "await insert()"
TaskRegisterInsert(i) ==
    LET task == tasks[i]
        username == Stored(task.op, task.form.username)
        doc == [username        |-> username,
                email           |-> "",
                hashed_password |-> generate_password_hash(task.form.password, "s4"),
                is_active       |-> TRUE,
                last_login_date |-> {},
                updated_at      |-> IF task.op = "create" THEN {} ELSE {now}]
    IN  /\ task.op \in RegisterOps /\ task.pc = "Checked"
        /\ IF held.unique_index /\ find_one(users, "username", username) # {}
             THEN TaskMove(i, TaskEnd(task, InsertRefused(task.op)), users)
             ELSE TaskMove(i, TaskEnd(task, Ok([user |-> NewId(i)])),
                           (NewId(i) :> doc) @@ users)

NextTasks ==
    \/ Tick
    \/ \E i \in TaskIds :
          \/ TaskBegin(i)
          \/ TaskLoginFind(i)
          \/ TaskLoginSave(i)
          \/ TaskLoginReload(i)
          \/ TaskLoginWrite(i)
          \/ TaskChangeFind(i)
          \/ TaskChangeReload(i)
          \/ TaskChangeWrite(i)
          \/ TaskRegisterCheck(i)
          \/ TaskRegisterInsert(i)

SpecTasks == InitTasks /\ [][NextTasks]_vars

(************************* handlers, step by step **************************)
RefreshTerminal == {"Reissued", "Rejected"}
LoginTerminal == {"Issued", "Rejected", "Failed"}

\* the server takes the next request once the previous one has been answered
Accepting ==
    /\ req.pc \in {"Idle"} \cup RefreshTerminal \cup LoginTerminal
    /\ req.n < MaxRequests

Step(next) ==
    /\ req' = next
    /\ UNCHANGED <<app, now, ticks, users, resp, held, cfg, tasks>>

\* JWTHandler.refresh_token is entered with refresh_token_str
RefreshReceive ==
    /\ Accepting
    /\ \E token \in PresentedTokens(now) :
          Step([NoRequest EXCEPT !.n = req.n + 1, !.op = "refresh",
                                 !.pc = "Received", !.token = token])

\* the decode step that goes on with the payload whatever decode_token raised
RefreshDecode_NoReject ==
    /\ req.op = "refresh" /\ req.pc = "Received"
    /\ Step([req EXCEPT !.pc = "Decoded", !.payload = {req.token.payload}])

\* payload = self.decode_token(refresh_token_str, token_type="refresh")
RefreshDecode ==
    /\ req.op = "refresh" /\ req.pc = "Received"
    /\ LET r == decode_token(req.token, {"refresh"}, now)
       IN  IF r.raised # {}
             THEN Step([req EXCEPT !.pc = "Rejected", !.out = r])
             ELSE Step([req EXCEPT !.pc = "Decoded", !.payload = {r.body}])

\* user_id = payload.get("sub"); if not user_id: raise
RefreshValidate ==
    /\ req.op = "refresh" /\ req.pc = "Decoded"
    /\ LET payload == CHOOSE c \in req.payload : TRUE
       IN  IF Get(payload, "sub") = {} \/ Get(payload, "sub") = {""}
             THEN Step([req EXCEPT !.pc = "Rejected",
                                   !.out = HTTPException(400, <<"No sub in Refresh Token">>,
                                                         EmptyDict)])
             ELSE Step([req EXCEPT !.pc = "Validated"])

\* new_access_token = self.create_access_token(...); return new_access_token
RefreshReissue ==
    /\ req.op = "refresh" /\ req.pc = "Validated"
    /\ LET payload == CHOOSE c \in req.payload : TRUE
       IN  Step([req EXCEPT !.pc = "Reissued",
                            !.out = Ok([token |-> create_access_token(
                                           [sub |-> payload.sub, token_type |-> "access"],
                                           {ACCESS_TOKEN_EXPIRE_MINUTES}, now)])])

\* POST /login is entered with form_data
LoginReceive ==
    /\ Accepting
    /\ \E form \in Forms :
          Step([NoRequest EXCEPT !.n = req.n + 1, !.op = "login",
                                 !.pc = "Received", !.form = form])

\* the lookup: by username, then by email (api_app); by username among the
\* active users (apiapp).  user is the document as loaded.
LoginFind ==
    /\ req.op = "login" /\ req.pc = "Received"
    /\ LET by_name == find_one(users, "username", req.form.username)
           user == IF app = "apiapp" THEN find_one_active(users, req.form.username)
                   ELSE IF by_name = {} THEN find_one(users, "email", req.form.username)
                   ELSE by_name
       IN  IF user = {}
             THEN Step([req EXCEPT !.pc = "Rejected",
                                   !.out = IncorrectUsernameOrPassword(EmptyDict)])
             ELSE LET id == CHOOSE u \in user : TRUE
                  IN  Step([req EXCEPT !.pc = "Found",
                               !.user = {[id |-> id,
                                          hashed_password |-> users[id].hashed_password,
                                          last_login_date |-> users[id].last_login_date]}])

\* user.verify_password(form_data.password)
LoginVerify ==
    /\ req.op = "login" /\ req.pc = "Found"
    /\ LET user == CHOOSE u \in req.user : TRUE
       IN  IF ~check_password_hash(user.hashed_password, req.form.password)
             THEN Step([req EXCEPT !.pc = "Rejected",
                                   !.out = IncorrectUsernameOrPassword(EmptyDict)])
             ELSE Step([req EXCEPT !.pc = "Verified"])

\* the awaited last-login write: "user.last_login_date = now; await
\* user.save()" (api_app) or "await self.repository.update(...)" on a fresh
\* copy (apiapp).  The store either saves or raises; nothing catches it.
LoginRecord ==
    /\ req.op = "login" /\ req.pc = "Verified"
    /\ LET user == CHOOSE u \in req.user : TRUE
           set  == IF app = "api_app" THEN [user EXCEPT !.last_login_date = {now}]
                                      ELSE user
       IN  \E saved \in BOOLEAN :
              IF saved
                THEN /\ req' = [req EXCEPT !.pc = "Recorded", !.write = "saved",
                                           !.user = {set}]
                     /\ users' = update(users, user.id, "last_login_date", {now})
                ELSE /\ req' = [req EXCEPT !.pc = "Failed", !.write = "failed",
                                           !.user = {set},
                                           !.out = Raise("PyMongoError",
                                                         <<"Internal Server Error">>)]
                     /\ users' = users
    /\ UNCHANGED <<app, now, ticks, resp, held, cfg, tasks>>

\* return schemas.Token(...): both tokens are minted after the write returned
LoginIssue ==
    /\ req.op = "login" /\ req.pc = "Recorded"
    /\ LET user == CHOOSE u \in req.user : TRUE
           out  == Token(create_access_token(
                             [sub |-> user.id, token_type |-> "access"],
                             {ACCESS_TOKEN_EXPIRE_MINUTES}, now),
                         create_refresh_token(
                             [sub |-> user.id, token_type |-> "refresh"],
                             IF app = "api_app" THEN {ACCESS_TOKEN_EXPIRE_MINUTES}
                                                ELSE {REFRESH_TOKEN_EXPIRE_MINUTES}, now),
                         ACCESS_TOKEN_EXPIRE_MINUTES * 60,
                         now + ACCESS_TOKEN_EXPIRE_MINUTES,
                         user.last_login_date)
       IN  Step([req EXCEPT !.pc = IF out.raised = {} THEN "Issued" ELSE "Failed",
                            !.out = out])

NextSteps ==
    \/ Tick
    \/ RefreshReceive
    \/ RefreshDecode
    \/ RefreshValidate
    \/ RefreshReissue
    \/ LoginReceive
    \/ LoginFind
    \/ LoginVerify
    \/ LoginRecord
    \/ LoginIssue

\* a handler that was entered runs on: none of its steps waits for anything
\* but the awaited store call, which returns or raises
SpecSteps ==
    /\ Init
    /\ [][NextSteps]_vars
    /\ WF_vars(RefreshDecode) /\ WF_vars(RefreshValidate) /\ WF_vars(RefreshReissue)
    /\ WF_vars(LoginFind) /\ WF_vars(LoginVerify) /\ WF_vars(LoginRecord)
    /\ WF_vars(LoginIssue)

(************************* properties **************************************)
\* the token carries the signature the configured secret and algorithm give
CorrectlySigned(token) ==
    /\ token.parts = 3
    /\ token.header.alg = ALGORITHM
    /\ token.signature = Sign(ALGORITHM, SECRET_KEY, token.header, token.payload)

\* t is not after the token's exp
Unexpired(token, t) ==
    "exp" \in DOMAIN token.payload => token.payload.exp >= t

\* t is after the token's exp
Expired(token, t) ==
    "exp" \in DOMAIN token.payload /\ token.payload.exp < t

LoginOps == {"login_for_access_token", "authentication"}

HandsOutToken == resp.raised = {} /\ "access_token" \in DOMAIN resp.body

\* the stored users the form's identifier and password match
Matching(form) ==
    {id \in DOMAIN users :
        /\ users[id].username = form.username
        /\ check_password_hash(users[id].hashed_password, form.password)}

\* C1: every token a login/token endpoint hands out was preceded, in the same
\* request, by a successful verification of the presented password against the
\* hash stored for the token's subject.
C1_TokenOnlyAfterVerification ==
    (resp.op \in LoginOps /\ HandsOutToken) =>
        check_password_hash(
            users[resp.body.access_token.payload.sub].hashed_password,
            resp.form.password)

\* C2: a correctly signed, unexpired token of kind access presented to the
\* refresh operation is rejected and no access token is returned.
C2_AccessTokenNeverRefreshes ==
    (/\ resp.op = "refresh_token"
     /\ CorrectlySigned(resp.token)
     /\ Unexpired(resp.token, resp.at)
     /\ Get(resp.token.payload, "token_type") = {"access"}) =>
        /\ resp.raised # {}
        /\ resp.status # 200
        /\ "access_token" \notin DOMAIN resp.body

C2_Witness ==
    /\ app = "api_app"
    /\ resp.op = "refresh_token"
    /\ CorrectlySigned(resp.token)
    /\ Unexpired(resp.token, resp.at)
    /\ Get(resp.token.payload, "token_type") = {"access"}
    /\ Get(resp.token.payload, "sub") = {"id1"}
    /\ resp.raised = {"HTTPException"}

\* C3: get_current_user resolves a user only from a token whose token_type is
\* access; a refresh token or a token without token_type is rejected.
C3_OnlyAccessTokensResolve ==
    (/\ resp.op = "get_current_user"
     /\ Get(resp.token.payload, "token_type") # {"access"}) =>
        /\ resp.raised # {}
        /\ "user" \notin DOMAIN resp.body

\* C4: for every stored user and every password matching the stored hash,
\* login succeeds and both returned tokens decode, with their own kind, to the
\* user's id.
C4_LoginRoundTrip ==
    (resp.op = "authentication" /\ Matching(resp.form) # {}) =>
        /\ resp.status = 200
        /\ \A id \in Matching(resp.form) :
              LET a == decode_token(resp.body.access_token, {"access"}, resp.at)
                  r == decode_token(resp.body.refresh_token, {"refresh"}, resp.at)
              IN  /\ a.raised = {} /\ Get(a.body, "sub") = {id}
                  /\ r.raised = {} /\ Get(r.body, "sub") = {id}

\* what the caller sees of an outcome
Visible(out) ==
    [raised |-> out.raised, status |-> out.status, detail |-> out.detail,
     headers |-> out.headers, body |-> out.body]

\* the outcome of the same operation for an identifier nobody has
GhostOutcome(op, password, t) ==
    LET form == [username |-> "ghost", password |-> password]
    IN  IF app = "apiapp"
          THEN RouterGuard(AuthUseCase_authentication(form, users, t).out)
        ELSE IF op = "authentication"
          THEN v1_authentication(form, users, t).out
        ELSE UserUseCase_authenticate_user(form, users, t).out

\* C5: authentication with an unknown identifier and authentication with an
\* existing identifier and a wrong password give the caller the same outcome.
C5_NoUserExistenceOracle ==
    (/\ resp.op \in {"authentication", "authenticate_user"}
     /\ \E id \in DOMAIN users :
           /\ users[id].username = resp.form.username
           /\ ~check_password_hash(users[id].hashed_password, resp.form.password)) =>
        Visible(resp) = Visible(GhostOutcome(resp.op, resp.form.password, resp.at))

\* C6: a correctly signed token presented after its exp is rejected by every
\* token-consuming operation, and decode_token reports it as expired whatever
\* kind is expected.
C6_ExpiredAlwaysRejected ==
    (/\ resp.op \in {"decode_token", "refresh_token", "get_current_user"}
     /\ CorrectlySigned(resp.token)
     /\ Expired(resp.token, resp.at)) =>
        /\ resp.raised # {}
        /\ resp.status # 200
        /\ (resp.op = "decode_token" \/ (resp.op = "refresh_token" /\ app = "api_app")) =>
              /\ resp.status = 400
              /\ resp.detail = <<"Token Expired">>

C6_Witness ==
    /\ resp.op = "decode_token"
    /\ CorrectlySigned(resp.token)
    /\ Expired(resp.token, resp.at)
    /\ Get(resp.token.payload, "token_type") = resp.kind
    /\ resp.kind = {"access"}
    /\ resp.status = 400

\* C7: in every token pair login returns, the refresh token expires at the
\* issue time plus REFRESH_TOKEN_EXPIRE_MINUTES and the access token at the
\* issue time plus ACCESS_TOKEN_EXPIRE_MINUTES.
C7_PairLifetimes ==
    (resp.op = "authentication" /\ HandsOutToken) =>
        /\ resp.body.access_token.payload.exp = resp.at + ACCESS_TOKEN_EXPIRE_MINUTES
        /\ resp.body.refresh_token.payload.exp = resp.at + REFRESH_TOKEN_EXPIRE_MINUTES

\* C8: an access token issued for s at t0 decodes, up to t0 + 10 minutes, to
\* subject s, kind access, issuedAt t0 and expiresAt t0 + 10; one minute later
\* decoding yields Expired.
C8_AccessTokenScenario ==
    \A s \in {"id1", "id2"}, t0 \in (resp.at - 11) .. resp.at :
        (/\ resp.op = "decode_token"
         /\ resp.kind = {"access"}
         /\ resp.token = create_access_token(
                            [sub |-> s, token_type |-> "access"], {}, t0)) =>
            /\ resp.at <= t0 + 10 =>
                  /\ resp.raised = {}
                  /\ Get(resp.body, "sub") = {s}
                  /\ Get(resp.body, "token_type") = {"access"}
                  /\ Get(resp.body, "iat") = {t0}
                  /\ Get(resp.body, "exp") = {t0 + 10}
            /\ resp.at = t0 + 11 =>
                  /\ resp.status = 400
                  /\ resp.detail = <<"Token Expired">>

\* C9: for every correctly signed, unexpired refresh token with a non-empty
\* sub, the refresh endpoint of each application variant answers 200 with
\* {access_token, token_type}.
C9_RefreshEndpointSucceeds ==
    (/\ resp.op = "refresh_token"
     /\ CorrectlySigned(resp.token)
     /\ Unexpired(resp.token, resp.at)
     /\ Get(resp.token.payload, "token_type") = {"refresh"}
     /\ Get(resp.token.payload, "sub") \notin {{}, {""}}) =>
        /\ resp.status = 200
        /\ DOMAIN resp.body = {"access_token", "token_type"}

\* C10: whenever the refresh operation succeeds, the access token it returns
\* carries the presented token's subject, token_type access, and expires at
\* the refresh time plus ACCESS_TOKEN_EXPIRE_MINUTES.
C10_RefreshedTokenClaims ==
    (resp.op = "refresh_token" /\ resp.raised = {}) =>
        /\ CorrectlySigned(resp.body.access_token)
        /\ DOMAIN resp.body.access_token.payload = {"sub", "token_type", "exp"}
        /\ resp.body.access_token.payload.sub = resp.token.payload.sub
        /\ resp.body.access_token.payload.token_type = "access"
        /\ resp.body.access_token.payload.exp = resp.at + ACCESS_TOKEN_EXPIRE_MINUTES

C10_Witness ==
    /\ resp.op = "refresh_token"
    /\ resp.raised = {}
    /\ Get(resp.token.payload, "token_type") = {"refresh"}
    /\ Get(resp.token.payload, "sub") = {"id2"}
    /\ ticks > 0

\* the token's signature segment is not the one the configured secret gives
BadSignature(token) ==
    /\ token.parts = 3
    /\ token.signature # Sign(token.header.alg, SECRET_KEY, token.header, token.payload)

\* the expected kind is given and the token's token_type is another one
WrongKind(token, kind) ==
    kind \notin {{}, {""}} /\ Get(token.payload, "token_type") # kind

TokenInvalid ==
    /\ resp.raised = {"HTTPException"}
    /\ resp.status = 401
    /\ resp.detail = <<"Token Invalid">>
    /\ resp.body = EmptyDict

TokenExpired ==
    /\ resp.raised = {"HTTPException"}
    /\ resp.status = 400
    /\ resp.detail = <<"Token Expired">>
    /\ resp.body = EmptyDict

\* C11: for a correctly signed, unexpired token and an expected kind other
\* than its token_type, decode_token answers with the wrong-kind rejection it
\* builds (401, naming the expected and the actual kind), and
\* JWTHandler.refresh_token hands every rejection of decode_token to its
\* caller unchanged.
C11_WrongKindReported ==
    (resp.op \in {"decode_token", "JWTHandler_refresh_token"}) =>
        /\ (/\ CorrectlySigned(resp.token)
            /\ Unexpired(resp.token, resp.at)
            /\ WrongKind(resp.token, resp.kind)) =>
              Visible(resp) = Visible(TokenTypeIncorrect(CHOOSE k \in resp.kind : TRUE,
                                                         resp.token.payload))
        /\ (/\ resp.op = "JWTHandler_refresh_token"
            /\ decode_token(resp.token, {"refresh"}, resp.at).raised # {}) =>
              Visible(resp) = Visible(decode_token(resp.token, {"refresh"}, resp.at))

\* C12: a token whose header names an algorithm other than HS256 (none
\* included) is never accepted by decode_token or get_current_user, whatever
\* its payload and signature.
C12_FixedAlgorithm ==
    (/\ resp.op \in {"decode_token", "get_current_user"}
     /\ resp.token.parts = 3
     /\ resp.token.header.alg # ALGORITHM) =>
        /\ resp.raised = {"HTTPException"}
        /\ resp.status \in {401, 403}
        /\ resp.body = EmptyDict
        /\ resp.op = "decode_token" => TokenInvalid

C12_Witness ==
    /\ resp.op = "decode_token"
    /\ resp.token.header.alg = "HS384"
    /\ resp.token.signature =
          Sign("HS384", SECRET_KEY, resp.token.header, resp.token.payload)
    /\ Unexpired(resp.token, resp.at)
    /\ resp.kind = {}
    /\ TokenInvalid

\* C13: a token whose signature segment differs from the one computed with
\* the configured secret always gets the bad-signature rejection ("Token
\* Invalid") from decode_token and is never decoded into claims, whatever its
\* payload.
C13_BadSignatureRejected ==
    (resp.op = "decode_token" /\ BadSignature(resp.token)) => TokenInvalid

C13_Witness ==
    /\ resp.op = "decode_token"
    /\ BadSignature(resp.token)
    /\ resp.token.header.alg = ALGORITHM
    /\ Expired(resp.token, resp.at)
    /\ WrongKind(resp.token, resp.kind)
    /\ TokenInvalid

\* the claims the handlers write into the tokens of a login pair
WrittenClaims == {"sub", "token_type", "exp"}

\* C14: decode_token checks structure, signature, required claims, expiry and
\* kind in that order: a bad signature gives the bad-signature rejection
\* whatever the payload, a correctly signed token lacking a required claim is
\* rejected for that before its expiry is looked at, and a correctly signed
\* token that is expired and of the wrong kind gives Expired.
C14_CheckOrder ==
    (resp.op = "decode_token") =>
        /\ resp.token.parts # 3 => TokenInvalid
        /\ BadSignature(resp.token) => TokenInvalid
        /\ (/\ CorrectlySigned(resp.token)
            /\ ~(WrittenClaims \subseteq DOMAIN resp.token.payload)) =>
              /\ resp.raised # {}
              /\ ~TokenExpired
        /\ (/\ CorrectlySigned(resp.token)
            /\ WrittenClaims \subseteq DOMAIN resp.token.payload
            /\ Expired(resp.token, resp.at)
            /\ WrongKind(resp.token, resp.kind)) => TokenExpired

\* C15: a correctly signed token whose payload lacks sub, token_type or exp is
\* rejected by decode_token for every expected kind, also when none is given.
\* (iat, which no handler writes, is left aside here.)
C15_MissingClaimRejected ==
    (/\ resp.op = "decode_token"
     /\ CorrectlySigned(resp.token)
     /\ ~(WrittenClaims \subseteq DOMAIN resp.token.payload)) =>
        /\ resp.raised # {}
        /\ resp.status # 200

\* C16: a correctly signed, unexpired refresh token whose sub is missing or
\* empty is rejected by refresh_token ("No sub in Refresh Token") and no
\* access token is issued for it.
C16_EmptySubjectRejected ==
    (/\ resp.op \in {"refresh_token", "JWTHandler_refresh_token"}
     /\ CorrectlySigned(resp.token)
     /\ Unexpired(resp.token, resp.at)
     /\ Get(resp.token.payload, "token_type") = {"refresh"}
     /\ Get(resp.token.payload, "sub") \in {{}, {""}}) =>
        /\ resp.raised # {}
        /\ resp.status # 200
        /\ resp.body = EmptyDict
        /\ (resp.op = "JWTHandler_refresh_token" \/ app = "api_app") =>
              /\ resp.status = 400
              /\ resp.detail = <<"No sub in Refresh Token">>

C16_Witness ==
    /\ resp.op = "JWTHandler_refresh_token"
    /\ CorrectlySigned(resp.token)
    /\ Unexpired(resp.token, resp.at)
    /\ Get(resp.token.payload, "token_type") = {"refresh"}
    /\ Get(resp.token.payload, "sub") = {""}
    /\ resp.status = 400

\* the steps a refresh request can take
RefreshEdges ==
    { <<"Received", "Decoded">>, <<"Received", "Rejected">>,
      <<"Decoded", "Validated">>, <<"Decoded", "Rejected">>,
      <<"Validated", "Reissued">> }

\* where a refresh request is, and what it holds there
RefreshPosition ==
    (req.op = "refresh") =>
        /\ req.pc \in {"Received", "Decoded", "Validated", "Reissued", "Rejected"}
        /\ req.pc = "Rejected" <=> req.out.raised # {}
        /\ req.pc = "Reissued" <=> "token" \in DOMAIN req.out.body
        /\ req.pc \in {"Decoded", "Validated", "Reissued"} =>
              /\ CorrectlySigned(req.token)
              /\ Get(req.token.payload, "token_type") = {"refresh"}
              /\ req.payload = {req.token.payload}
        /\ req.pc \in {"Validated", "Reissued"} =>
              Get(req.token.payload, "sub") \notin {{}, {""}}

\* a refresh request moves along RefreshEdges only; a terminal position has
\* no edge out
RefreshMoves ==
    (req.op = "refresh" /\ req'.n = req.n /\ req' # req) =>
        /\ <<req.pc, req'.pc>> \in RefreshEdges
        /\ req'.token = req.token

RefreshEnds ==
    (req.op = "refresh" /\ req.pc = "Received") ~> (req.pc \in RefreshTerminal)

\* C17: every refresh request moves only along Received -> Decoded ->
\* Validated -> Reissued or into Rejected, ends in exactly one of Reissued and
\* Rejected, reaches Reissued only after its token decoded as kind refresh and
\* its subject was validated, and never leaves a terminal outcome.
C17_RefreshLifecycle ==
    /\ []RefreshPosition
    /\ [][RefreshMoves]_vars
    /\ RefreshEnds

C17_Witness ==
    /\ req.op = "refresh"
    /\ req.n = MaxRequests
    /\ req.pc = "Reissued"
    /\ req.out.body.token.payload.exp = now + ACCESS_TOKEN_EXPIRE_MINUTES
    /\ ticks > 0

\* C19: when the credential is found and the password verifies, login returns
\* the token pair even if recording the last-login timestamp fails.
C19_BestEffortWrite ==
    (/\ req.op = "login"
     /\ req.write = "failed"
     /\ req.pc \in LoginTerminal) =>
        /\ req.out.raised = {}
        /\ {"access_token", "refresh_token"} \subseteq DOMAIN req.out.body

\* C20: in every token pair login returns, expires_at is the exp claim of the
\* returned access token and issued_at is the time at which that access token
\* was minted in this login.
C20_PairTimestamps ==
    (resp.op = "authentication" /\ HandsOutToken) =>
        /\ resp.body.expires_at = resp.body.access_token.payload.exp
        /\ resp.body.issued_at = resp.at

\* the refresh token the client holds is the one the last response is about
HeldTokenUsed ==
    /\ resp.op = "JWTHandler_refresh_token"
    /\ held.token = {resp.token}

\* C18: the refresh token a login returned is accepted by refresh_token at
\* every time up to its exp, however often it was used and whatever logins
\* and password changes happened since; each use returns an access token and
\* nothing else, and no operation replaces or invalidates the held token.
C18_RefreshTokenReusable ==
    /\ [](HeldTokenUsed /\ resp.at <= resp.token.payload.exp =>
            /\ resp.raised = {}
            /\ DOMAIN resp.body = {"token"}
            /\ resp.body.token.payload.token_type = "access"
            /\ resp.body.token.payload.sub = resp.token.payload.sub)
    /\ [][/\ held.token # {} => held'.token = held.token
          /\ held'.uses # held.uses => users' = users]_vars

C18_Witness ==
    /\ HeldTokenUsed
    /\ held.uses = MaxUses
    /\ resp.at = resp.token.payload.exp
    /\ resp.raised = {}
    /\ users[resp.token.payload.sub].hashed_password
          = generate_password_hash("newpassword", "s3")
    /\ users[resp.token.payload.sub].last_login_date = {resp.at}

MintOps == {"create_access_token", "create_refresh_token"}

TokenOps == MintOps \cup {"decode_token", "refresh_token"}

\* C21: every token create_access_token or create_refresh_token mints, for
\* every configured TTL and every expires_delta argument (zero and absent
\* included), expires strictly after the time it was minted, and carries the
\* token_type it was minted with.
C21_ExpiryAfterIssue ==
    (resp.op \in MintOps) =>
        /\ resp.token.payload.exp > resp.at
        /\ Get(resp.token.payload, "token_type") = resp.kind

\* C23: the process never issues or accepts a token unless a non-empty
\* signing secret was set explicitly in its configuration.
C23_NoTokensWithoutSecret ==
    (cfg.started /\ resp.op \in TokenOps /\ resp.raised = {}) =>
        /\ "SECRET_KEY" \in DOMAIN cfg.env
        /\ cfg.env.SECRET_KEY # ""

\* C26: create_access_token, create_refresh_token, decode_token and
\* refresh_token leave the user store, the settings and the handler built at
\* startup as they were.
C26_TokenOpsStateless ==
    [][(resp' # resp /\ resp'.op \in TokenOps) =>
          /\ users' = users
          /\ cfg' = cfg
          /\ held' = held]_vars

C26_Witness ==
    /\ resp.op = "refresh_token"
    /\ resp.raised = {}
    /\ cfg.env = [SECRET_KEY |-> "k1"]
    /\ users = InitUsers
    /\ ticks > 0

\* C28: no login operation returns tokens for an account that is marked
\* inactive, whatever password is supplied.
C28_InactiveNeverLogsIn ==
    (resp.op \in LoginOps /\ HandsOutToken) =>
        users[resp.body.access_token.payload.sub].is_active

HasherOf(op) ==
    IF op = "verify_password" THEN "bcrypt"
    ELSE IF op \in {"User_verify_password", "authentication"} THEN "werkzeug"
    ELSE "none"

\* the stored hash is not one the hasher behind the operation produced
MalformedFor(op) == HasherOf(op) # "none" /\ held.by # HasherOf(op)

\* C24: on a malformed stored hash (empty, truncated, not in the hasher's
\* format) verification returns false and does not raise, for every
\* plaintext, and login ends in the ordinary invalid-credentials outcome.
C24_MalformedHashIsFalse ==
    MalformedFor(resp.op) =>
        IF resp.op = "authentication"
          THEN /\ resp.status = 401
               /\ resp.detail = <<"Incorrect username or password">>
          ELSE /\ resp.raised = {}
               /\ resp.body.value = FALSE

\* C25: each hasher hashes every plaintext, verifies a plaintext against its
\* own hash and rejects every other plaintext.
C25_HashRoundTrip ==
    /\ resp.op \in {"get_password_hash", "set_password"} => resp.raised = {}
    /\ (resp.op \in {"verify_password", "User_verify_password"}
            /\ held.by = HasherOf(resp.op)) =>
          /\ resp.raised = {}
          /\ resp.body.value = (resp.form.password \in held.of)

\* the role an account holds, however the document keeps it
RoleName(role) == role.value

\* the conditions under which a deactivation request may go through
MayDeactivate(user_id, admin_user_id) ==
    /\ admin_user_id \in DOMAIN users
    /\ RoleName(users[admin_user_id].role) \in {"admin", "super_admin"}
    /\ user_id \in DOMAIN users
    /\ RoleName(users[user_id].role) # "super_admin"
    /\ user_id # admin_user_id

C30_Step ==
    (resp' # resp /\ resp'.op = "deactivate_user") =>
        LET user_id == resp'.form.user_id
            admin_user_id == resp'.form.admin_user_id
        IN  /\ users' # users =>
                /\ MayDeactivate(user_id, admin_user_id)
                /\ resp'.raised = {}
                /\ \A id \in DOMAIN users : id # user_id => users'[id] = users[id]
                /\ ~users'[user_id].is_active
            /\ ~MayDeactivate(user_id, admin_user_id) =>
                /\ resp'.raised = {"BusinessLogicError"}
                /\ users' = users

C30_Kept ==
    \A id \in DOMAIN users :
        /\ RoleName(users[id].role) = "super_admin" => users[id].is_active
        /\ users[id].deactivated_by # {id}

\* C30: deactivate_user sets a target's is_active to false only when the
\* requester exists with role admin or super_admin, the target exists, is not
\* a super_admin and is not the requester; otherwise it raises a
\* business-logic error and leaves the store as it was; no super_admin and no
\* self-requested target is ever deactivated.
C30_DeactivationRules == []C30_Kept /\ [][C30_Step]_vars

C30_Witness ==
    /\ resp.op = "deactivate_user"
    /\ resp.raised = {}
    /\ resp.form = [user_id |-> "id2", admin_user_id |-> "id3"]
    /\ ~users["id2"].is_active
    /\ ~users["id3"].is_active
    /\ users["id3"].deactivated_by = {"id1"}
    /\ users["id1"].is_active

AllDone == \A i \in TaskIds : tasks[i].pc = "Done"

\* the token in a login's response decodes, as of the response, for the user
DecodesFor(task, field, kind, id) ==
    /\ field \in DOMAIN task.out.body
    /\ LET r == decode_token(task.out.body[field], {kind}, task.at)
       IN  r.raised = {} /\ Get(r.body, "sub") = {id}

\* C22: of two concurrent logins of the same user with the correct password,
\* both complete successfully and each returns a token pair whose access and
\* refresh tokens decode for that user.
C22_ConcurrentLoginsSucceed ==
    \A i \in TaskIds :
        (/\ tasks[i].pc = "Done"
         /\ tasks[i].op = "authentication"
         /\ tasks[i].form.password = "pw1"
         /\ \A j \in TaskIds : tasks[j].op = "authentication") =>
            /\ tasks[i].out.raised = {}
            /\ DecodesFor(tasks[i], "access_token", "access", "id1")
            /\ DecodesFor(tasks[i], "refresh_token", "refresh", "id1")

\* C27: once a login and a concurrent password change for the same user have
\* both completed, the stored hash is the hash of the new password.
C27_LoginKeepsNewHash ==
    (/\ AllDone
     /\ \E i \in TaskIds : tasks[i].op = "authentication"
     /\ \E i \in TaskIds :
           /\ tasks[i].op \in {"change_password", "update_password"}
           /\ tasks[i].out.raised = {}) =>
        check_password_hash(users["id1"].hashed_password, "newpassword")

DuplicateErrors == {"DuplicatedError", "DuplicateKeyError", "ValueError"}

\* C29: the store never holds two users with the same username as stored
\* (apiapp stores it normalized), and a registration that ends while another user holds its username has
\* failed with a duplicate error and inserted nothing.
C29_UniqueUsernames ==
    /\ \A a, b \in DOMAIN users : users[a].username = users[b].username => a = b
    /\ \A i \in TaskIds :
          (/\ tasks[i].pc = "Done"
           /\ tasks[i].op \in RegisterOps
           /\ \E id \in DOMAIN users \ {NewId(i)} :
                 users[id].username = Stored(tasks[i].op, tasks[i].form.username)) =>
              /\ tasks[i].out.raised \cap DuplicateErrors # {}
              /\ NewId(i) \notin DOMAIN users

====
